---- MODULE Spec2Model ----
(***************************************************************************)
(* Model of the aria2 download manager (download/aria2.rs):                *)
(* Aria2Manager::start, the per-task operations, shutdown and Drop.        *)
(*                                                                         *)
(* The external world (the aria2c subprocess, the websocket RPC engine,    *)
(* the timer) is represented by what the manager does to it: the number    *)
(* of spawns, sleeps, connection attempts, kills and RPCs it issues, and   *)
(* by the nondeterministic answers it gives back.                          *)
(*                                                                         *)
(* Every async fn is cut at its .await points: one action runs the code    *)
(* from one suspension point to the next (or to the return).               *)
(***************************************************************************)
EXTENDS Bags, FiniteSets, Integers, Sequences, TLC

\* ---------------------------------------------------------------------
\* Program constants
\* ---------------------------------------------------------------------

\* An off-by-one loop bound: `for i in 0..=15`.
MaxAttemptsInclusive == 15 + 1

\* `for i in 0..15`
MaxAttempts == 15

\* `Duration::from_millis(500)`
SleepMs == 500

\* anyhow!("初始化aria2失败: {}", last_error): the fixed text in front of the
\* embedded connection error (transliterated, the lexer takes ASCII only).
InitFailPrefix == "init aria2 failed: "

\* anyhow!("aria2 client not connected")
NotConnectedMsg == "aria2 client not connected"

\* bail!("aria2c.exe not found at {:?}", aria2c_path)
NotFoundMsg == "aria2c.exe not found at <bin_dir>/aria2c.exe"

\* DownloadStatus::Error("已移除")
RemovedMsg == "removed"

\* ---------------------------------------------------------------------
\* Bounds and input domains
\* ---------------------------------------------------------------------

\* Largest number of per-task calls suspended at their RPC await at once.
MaxInflight == 2

\* Largest number of shutdown() calls that return on one manager.
MaxShutdowns == 2

\* Largest byte count in the status records of the status session.
MaxBytes == 5

\* Texts that a failed Client::connect may carry (e.to_string()).
ConnErrTexts == {"refused", "timed out"}

\* Text of the io::Error of a failed spawn().
SpawnErrTexts == {"access denied"}

\* Failures the engine may answer an RPC with.
EngineErrs == {"gid not found", "rpc failed"}

\* Task handles used by callers and returned by the engine.
Gids == {"gid1", "gid2"}

\* aria2_ws::response::TaskStatus
TaskStatuses == {"Waiting", "Active", "Paused", "Complete", "Error", "Removed"}

None == [some |-> FALSE]

Some(v) == [some |-> TRUE, val |-> v]

\* Status records the engine answers tell_status with in the session model.
StatusSamples ==
    { [status |-> "Active", completed_length |-> 50, total_length |-> 200,
       download_speed |-> 1024, error_message |-> None],
      [status |-> "Error", completed_length |-> 0, total_length |-> 0,
       download_speed |-> 0, error_message |-> Some("disk full")],
      [status |-> "Removed", completed_length |-> 10, total_length |-> 10,
       download_speed |-> 0, error_message |-> Some("disk full")] }

\* Answers of get_global_stat: download_speed, num_active.
GlobalStatSamples ==
    { [download_speed |-> 0, num_active |-> 0],
      [download_speed |-> 2048, num_active |-> 2] }

VARIABLES
    startPc,        \* position of the start() call
    i,              \* start(): loop variable of `for i in 0..15`
    last_error,     \* start(): local `last_error`
    startResult,    \* what start() returned
    mgr,            \* "none": no Aria2Manager value exists, "live", "dropped"
    client,         \* Aria2Manager.client is Some
    aria2_process,  \* Aria2Manager.aria2_process is Some
    inflight,       \* bag of per-task calls suspended at their RPC await
    shutdownPc,     \* "idle", or "await": shutdown() suspended at client.shutdown().await
    ret,            \* value returned by the call that returned in the last step
    sent,           \* per-task RPC request sent in the last step
    recv,           \* answer of the engine received in the last step
    spawned,        \* the aria2c subprocess has been spawned
    launch,         \* what start() found: does aria2c.exe exist, result of spawn()
    sleeps,         \* number of sleeps performed
    sleptMs,        \* total time slept
    attempts,       \* number of Client::connect attempts made
    connFirst,      \* outcome of the first connection attempt
    connLast,       \* outcome of the latest connection attempt
    kills,          \* number of Child::kill calls issued
    killLast,       \* outcome of the latest kill
    rpcShutdowns,   \* number of engine-level shutdown RPCs sent
    rpcShutdownLast,\* outcome of the latest engine-level shutdown RPC
    shutdownsReturned \* number of shutdown() calls that have returned

vars == <<startPc, i, last_error, startResult, mgr, client, aria2_process,
          inflight, shutdownPc, ret, sent, recv, spawned, launch, sleeps,
          sleptMs, attempts, connFirst, connLast, kills, killLast, rpcShutdowns,
          rpcShutdownLast, shutdownsReturned>>

startVars == <<startPc, i, last_error, startResult>>

handleVars == <<mgr, client, aria2_process>>

connectVars == <<sleeps, sleptMs, attempts, connFirst, connLast>>

teardownVars == <<kills, killLast, rpcShutdowns, rpcShutdownLast,
                  shutdownsReturned>>

\* ---------------------------------------------------------------------
\* Result values
\* ---------------------------------------------------------------------

Ok(v) == [kind |-> "Ok", val |-> v]

Err(m) == [kind |-> "Err", msg |-> m]

Unit == "()"

NoRet == [op |-> "none"]

NoSent == [method |-> "none"]

NoRecv == [kind |-> "none"]

NoLaunch == [exists |-> "unknown", spawn |-> "none"]

Returned(op, gid, res) == [op |-> op, gid |-> gid, res |-> res]

Request(method, gid) == [method |-> method, gid |-> gid]

\* Arguments that are not a task handle (add_download, get_global_stat, shutdown).
NoGid == "-"

\* ---------------------------------------------------------------------
\* Initial state: start() has not been called, no manager value exists.
\* ---------------------------------------------------------------------

Init ==
    /\ startPc = "ready"
    /\ i = 0
    /\ last_error = ""
    /\ startResult = [kind |-> "none"]
    /\ mgr = "none"
    /\ client = FALSE
    /\ aria2_process = FALSE
    /\ inflight = EmptyBag
    /\ shutdownPc = "idle"
    /\ ret = NoRet
    /\ sent = NoSent
    /\ spawned = FALSE
    /\ launch = NoLaunch
    /\ sleeps = 0
    /\ sleptMs = 0
    /\ attempts = 0
    /\ connFirst = "none"
    /\ connLast = "none"
    /\ kills = 0
    /\ killLast = "none"
    /\ rpcShutdowns = 0
    /\ rpcShutdownLast = "none"
    /\ shutdownsReturned = 0
    /\ recv = NoRecv

\* ---------------------------------------------------------------------
\* Aria2Manager::start
\* ---------------------------------------------------------------------

\* The error start() returns when the loop ends with `client` still None.
ConnectFailure(lastErr) == Err(InitFailPrefix \o lastErr)

\* Keeps the first failure instead of the latest one.
RecordErrorFirst(old, e) == IF old = "" THEN e ELSE old

\* What the Err arm of the connect match stores in `last_error`.
RecordError(old, e) == e

\* A rollback that kills the half-started child on the failure path.
DropChildKills ==
    /\ kills' = kills + 1
    /\ killLast' = "ok"
    /\ UNCHANGED <<rpcShutdowns, rpcShutdownLast, shutdownsReturned>>

\* `process` goes out of scope when start() returns the connection error:
\* dropping a std::process::Child neither kills nor waits for the child.
DropChild == UNCHANGED teardownVars

\* The launch as start() saw it; spawn() is not reached for a missing file.
Launched(exists, spawnRes) ==
    IF exists THEN [exists |-> "yes", spawn |-> spawnRes]
              ELSE [exists |-> "no", spawn |-> "none"]

\* start() without the up-front existence check: spawn() is always tried.
StartLaunchNoCheck(exists, spawnRes) ==
    /\ startPc = "ready"
    /\ IF spawnRes # "ok"
         THEN /\ startResult' = Err(spawnRes)
              /\ startPc' = "returned"
              /\ UNCHANGED <<i, last_error, spawned>>
         ELSE /\ spawned' = TRUE
              /\ i' = 0
              /\ last_error' = ""
              /\ startPc' = "sleep"
              /\ UNCHANGED startResult
    /\ launch' = Launched(exists, spawnRes)
    /\ ret' = NoRet
    /\ sent' = NoSent
    /\ recv' = NoRecv
    /\ UNCHANGED <<handleVars, inflight, shutdownPc, connectVars, teardownVars>>

\* start() up to the first sleep: the existence check and the spawn.
StartLaunch(exists, spawnRes) ==
    /\ startPc = "ready"
    /\ IF ~exists
         THEN /\ startResult' = Err(NotFoundMsg)
              /\ startPc' = "returned"
              /\ UNCHANGED <<i, last_error, spawned>>
         ELSE IF spawnRes # "ok"
         THEN /\ startResult' = Err(spawnRes)
              /\ startPc' = "returned"
              /\ UNCHANGED <<i, last_error, spawned>>
         ELSE /\ spawned' = TRUE
              /\ i' = 0
              /\ last_error' = ""
              /\ startPc' = "sleep"
              /\ UNCHANGED startResult
    /\ launch' = Launched(exists, spawnRes)
    /\ ret' = NoRet
    /\ sent' = NoSent
    /\ recv' = NoRecv
    /\ UNCHANGED <<handleVars, inflight, shutdownPc, connectVars, teardownVars>>

\* tokio::time::sleep(500ms).await at the head of the loop body.
StartSleep ==
    /\ startPc = "sleep"
    /\ i < MaxAttempts
    /\ sleeps' = sleeps + 1
    /\ sleptMs' = sleptMs + SleepMs
    /\ startPc' = "connect"
    /\ ret' = NoRet
    /\ sent' = NoSent
    /\ recv' = NoRecv
    /\ UNCHANGED <<i, last_error, startResult, handleVars, inflight, shutdownPc,
                   spawned, launch, attempts, connFirst, connLast, teardownVars>>

\* The connect step of a loop that does not count its attempts.
StartConnectNoCount(connRes) ==
    /\ startPc = "connect"
    /\ attempts' = attempts + 1
    /\ connLast' = connRes
    /\ connFirst' = IF attempts = 0 THEN connRes ELSE connFirst
    /\ IF connRes = "ok"
         THEN \* Ok(c): client = Some(c); break; Ok(Self { .. })
              /\ mgr' = "live"
              /\ client' = TRUE
              /\ aria2_process' = TRUE
              /\ startResult' = Ok("Aria2Manager")
              /\ startPc' = "returned"
              /\ i' = 0
              /\ last_error' = ""
              /\ UNCHANGED teardownVars
         ELSE \* Err(e): last_error = e.to_string()
              /\ last_error' = RecordError(last_error, connRes)
              /\ i' = i
              /\ IF i + 1 < MaxAttempts
                   THEN /\ startPc' = "sleep"
                        /\ UNCHANGED <<startResult, handleVars, teardownVars>>
                   ELSE \* loop exhausted: client.ok_or_else(..)? returns the
                        \* error and the locals are dropped
                        /\ startResult' = ConnectFailure(last_error')
                        /\ startPc' = "returned"
                        /\ DropChild
                        /\ UNCHANGED handleVars
    /\ ret' = NoRet
    /\ sent' = NoSent
    /\ recv' = NoRecv
    /\ UNCHANGED <<inflight, shutdownPc, spawned, launch, sleeps, sleptMs>>

\* Client::connect(..).await and the code after it, up to the next sleep or
\* to the return of start().  connRes is "ok" or the text of the failure.
StartConnect(connRes) ==
    /\ startPc = "connect"
    /\ attempts' = attempts + 1
    /\ connLast' = connRes
    /\ connFirst' = IF attempts = 0 THEN connRes ELSE connFirst
    /\ IF connRes = "ok"
         THEN \* Ok(c): client = Some(c); break; Ok(Self { .. })
              /\ mgr' = "live"
              /\ client' = TRUE
              /\ aria2_process' = TRUE
              /\ startResult' = Ok("Aria2Manager")
              /\ startPc' = "returned"
              /\ i' = 0
              /\ last_error' = ""
              /\ UNCHANGED teardownVars
         ELSE \* Err(e): last_error = e.to_string()
              /\ last_error' = RecordError(last_error, connRes)
              /\ i' = i + 1
              /\ IF i + 1 < MaxAttempts
                   THEN /\ startPc' = "sleep"
                        /\ UNCHANGED <<startResult, handleVars, teardownVars>>
                   ELSE \* loop exhausted: client.ok_or_else(..)? returns the
                        \* error and the locals are dropped
                        /\ startResult' = ConnectFailure(last_error')
                        /\ startPc' = "returned"
                        /\ DropChild
                        /\ UNCHANGED handleVars
    /\ ret' = NoRet
    /\ sent' = NoSent
    /\ recv' = NoRecv
    /\ UNCHANGED <<inflight, shutdownPc, spawned, launch, sleeps, sleptMs>>

\* ---------------------------------------------------------------------
\* Borrows.  The per-task operations take &self, shutdown takes &mut self
\* and drop takes the value: a suspended call keeps its borrow alive.
\* ---------------------------------------------------------------------

\* A manager that can be used before start() has returned it.
CanBorrowSharedAnytime == shutdownPc = "idle"

CanBorrowShared == mgr = "live" /\ shutdownPc = "idle"

\* shutdown(&self): no exclusive access.
CanBorrowMutShared == mgr = "live" /\ shutdownPc = "idle"

CanBorrowMut == mgr = "live" /\ shutdownPc = "idle" /\ inflight = EmptyBag

Call(op, gid) == [op |-> op, gid |-> gid]

\* The call returns res without having reached an await.
ReturnNow(op, gid, res) ==
    /\ ret' = Returned(op, gid, res)
    /\ sent' = NoSent
    /\ recv' = NoRecv
    /\ UNCHANGED inflight

\* The call sends req on the connection and suspends until the answer.
SendAndAwait(op, gid, req) ==
    /\ BagCardinality(inflight) < MaxInflight
    /\ sent' = req
    /\ recv' = NoRecv
    /\ inflight' = inflight (+) SetToBag({Call(op, gid)})
    /\ ret' = NoRet

PerTaskFrame == UNCHANGED <<startVars, handleVars, shutdownPc, spawned, launch,
                            connectVars, teardownVars>>

\* ---------------------------------------------------------------------
\* Aria2Manager::add_download
\* ---------------------------------------------------------------------

\* TaskOptions built by add_download.
AddOptions(save_dir, filename) ==
    [dir |-> save_dir, split |-> 32, max_connection_per_server |-> 16,
     out |-> filename]

\* add_download that reconnects when the client is gone.
add_download_reconnect(url, save_dir, filename) ==
    /\ CanBorrowShared
    /\ client' = TRUE
    /\ SendAndAwait("add_download", NoGid,
           [method |-> "addUri", gid |-> NoGid, uris |-> <<url>>,
            options |-> AddOptions(save_dir, filename)])
    /\ UNCHANGED <<startVars, mgr, aria2_process, shutdownPc, spawned, launch,
                   connectVars, teardownVars>>

add_download(url, save_dir, filename) ==
    /\ CanBorrowShared
    /\ IF ~client
         THEN ReturnNow("add_download", NoGid, Err(NotConnectedMsg))
         ELSE SendAndAwait("add_download", NoGid,
                  [method |-> "addUri", gid |-> NoGid, uris |-> <<url>>,
                   options |-> AddOptions(save_dir, filename)])
    /\ PerTaskFrame

\* Returns a handle of its own instead of the one the engine answered with.
add_download_resume_own(gid, reply) ==
    IF reply.kind = "Err" THEN Err(reply.msg) ELSE Ok(gid)

\* client.add_uri(..).await? ; Ok(gid)
add_download_resume(gid, reply) ==
    IF reply.kind = "Err" THEN Err(reply.msg) ELSE Ok(reply.val)

\* ---------------------------------------------------------------------
\* Aria2Manager::get_status
\* ---------------------------------------------------------------------

\* f64 arithmetic (IEEE 754 binary64, round to nearest, ties to even) on the
\* values that occur here: not negative, finite, normal.

\* Significant bits of an f64.
MantissaBits == 53

\* Natural numbers as sequences of bits, least significant first, without
\* high zero bits (zero is the empty sequence).
BitLen(n) == CHOOSE k \in 0..31 : 2^k > n /\ \A j \in 0..(k - 1) : 2^j <= n

BitsOf(n) == [j \in 1..BitLen(n) |-> (n \div 2^(j - 1)) % 2]

RECURSIVE NatOf(_)
NatOf(b) == IF b = <<>> THEN 0 ELSE Head(b) + 2 * NatOf(Tail(b))

HighOne(b) ==
    IF \A j \in 1..Len(b) : b[j] = 0 THEN 0
    ELSE CHOOSE j \in 1..Len(b) : b[j] = 1 /\ \A k \in (j + 1)..Len(b) : b[k] = 0

Trim(b) == SubSeq(b, 1, HighOne(b))

LowZeros(b) ==
    IF \A j \in 1..Len(b) : b[j] = 0 THEN 0
    ELSE (CHOOSE j \in 1..Len(b) : b[j] = 1 /\ \A k \in 1..(j - 1) : b[k] = 0) - 1

ShiftLeft(b, n) ==
    IF b = <<>> THEN <<>>
    ELSE [j \in 1..(n + Len(b)) |-> IF j <= n THEN 0 ELSE b[j - n]]

Pad(b, n) == [j \in 1..n |-> IF j <= Len(b) THEN b[j] ELSE 0]

\* b * k + carry: the low Len(b) bits and what is carried out of them.
RECURSIVE MulCarry(_, _, _)
MulCarry(b, k, carry) ==
    IF Len(b) = 0 THEN [bits |-> <<>>, carry |-> carry]
    ELSE IF Len(b) = 1
    THEN [bits |-> <<(b[1] * k + carry) % 2>>, carry |-> (b[1] * k + carry) \div 2]
    ELSE LET h == Len(b) \div 2
             lo == MulCarry(SubSeq(b, 1, h), k, carry)
             hi == MulCarry(SubSeq(b, h + 1, Len(b)), k, lo.carry)
         IN  [bits |-> lo.bits \o hi.bits, carry |-> hi.carry]

MulSmall(b, k) ==
    LET p == MulCarry(b, k, 0) IN Trim(p.bits \o BitsOf(p.carry))

\* a + b + carry over sequences of one length
RECURSIVE AddCarry(_, _, _)
AddCarry(a, b, carry) ==
    IF Len(a) = 0 THEN [bits |-> <<>>, carry |-> carry]
    ELSE IF Len(a) = 1
    THEN [bits |-> <<(a[1] + b[1] + carry) % 2>>,
          carry |-> (a[1] + b[1] + carry) \div 2]
    ELSE LET h == Len(a) \div 2
             lo == AddCarry(SubSeq(a, 1, h), SubSeq(b, 1, h), carry)
             hi == AddCarry(SubSeq(a, h + 1, Len(a)), SubSeq(b, h + 1, Len(b)),
                            lo.carry)
         IN  [bits |-> lo.bits \o hi.bits, carry |-> hi.carry]

AddBits(a, b) ==
    LET n == IF Len(a) >= Len(b) THEN Len(a) ELSE Len(b)
        s == AddCarry(Pad(a, n), Pad(b, n), 0)
    IN  Trim(s.bits \o BitsOf(s.carry))

Inc(b) == AddBits(b, <<1>>)

LeqBits(a, b) ==
    \/ Len(a) < Len(b)
    \/ /\ Len(a) = Len(b)
       /\ \/ a = b
          \/ LET j == CHOOSE j \in 1..Len(a) :
                        a[j] # b[j] /\ \A k \in (j + 1)..Len(a) : a[k] = b[k]
             IN  a[j] < b[j]

Reverse(b) == [j \in 1..Len(b) |-> b[Len(b) + 1 - j]]

\* Long division of b by the small number d, from the high bit down, with
\* the remainder r carried in: quotient bits (high bit first) and final
\* remainder.
RECURSIVE DivRem(_, _, _)
DivRem(b, d, r) ==
    IF Len(b) = 0 THEN [q |-> <<>>, r |-> r]
    ELSE IF Len(b) = 1
    THEN [q |-> <<IF 2 * r + b[1] >= d THEN 1 ELSE 0>>,
          r |-> IF 2 * r + b[1] >= d THEN 2 * r + b[1] - d ELSE 2 * r + b[1]]
    ELSE LET h == Len(b) \div 2
             hi == DivRem(SubSeq(b, h + 1, Len(b)), d, r)
             lo == DivRem(SubSeq(b, 1, h), d, hi.r)
         IN  [q |-> hi.q \o lo.q, r |-> lo.r]

\* An f64 that is not negative: m * 2^e with m of exactly 53 bits, or zero.
F64Zero == [m |-> <<>>, e |-> 0]

\* Round b * 2^e (plus less than one unit of b when sticky) to nearest, ties
\* to even.
RoundF64(b, sticky, e) ==
    IF b = <<>> THEN F64Zero
    ELSE IF Len(b) <= MantissaBits
    THEN [m |-> ShiftLeft(b, MantissaBits - Len(b)),
          e |-> e - (MantissaBits - Len(b))]
    ELSE LET d == Len(b) - MantissaBits
             kept == SubSeq(b, d + 1, Len(b))
             rest == sticky \/ \E j \in 1..(d - 1) : b[j] = 1
             up == b[d] = 1 /\ (rest \/ kept[1] = 1)
             m1 == IF up THEN Inc(kept) ELSE kept
         IN  IF Len(m1) > MantissaBits
               THEN [m |-> SubSeq(m1, 2, Len(m1)), e |-> e + d + 1]
               ELSE [m |-> m1, e |-> e + d]

\* `n as f64`
FromU64(n) == RoundF64(BitsOf(n), FALSE, 0)

\* The odd factor of the mantissa (small for the numbers used here).
OddPart(f) == NatOf(SubSeq(f.m, LowZeros(f.m) + 1, Len(f.m)))

\* a * b
MulF64(a, b) ==
    IF a.m = <<>> \/ b.m = <<>> THEN F64Zero
    ELSE RoundF64(MulSmall(a.m, OddPart(b)), FALSE, a.e + b.e + LowZeros(b.m))

\* a / b, b not zero
DivF64(a, b) ==
    IF a.m = <<>> THEN F64Zero
    ELSE LET d == OddPart(b)
             s == 2 + BitLen(d)
             qr == DivRem(ShiftLeft(a.m, s), d, 0)
         IN  RoundF64(Trim(Reverse(qr.q)), qr.r # 0, a.e - s - (b.e + LowZeros(b.m)))

\* f = num / den
F64EqRatio(f, num, den) ==
    IF f.e >= 0 THEN ShiftLeft(MulSmall(f.m, den), f.e) = BitsOf(num)
    ELSE MulSmall(f.m, den) = ShiftLeft(BitsOf(num), 0 - f.e)

\* |f - num / den| <= 2^-50 * num / den
F64NearRatio(f, num, den) ==
    LET up == IF f.e >= 0 THEN f.e ELSE 0
        dn == IF f.e >= 0 THEN 0 ELSE 0 - f.e
        lhs == ShiftLeft(MulSmall(f.m, den), 50 + up)
        rhs == ShiftLeft(BitsOf(num), 50 + dn)
        tol == ShiftLeft(BitsOf(num), dn)
    IN  /\ LeqBits(lhs, AddBits(rhs, tol))
        /\ LeqBits(rhs, AddBits(lhs, tol))

\* completed as f64 / total as f64, without the `* 100.0`.
PercentageFraction(completed, total) ==
    IF total > 0
      THEN DivF64(FromU64(completed), FromU64(total))
      ELSE F64Zero

\* if total > 0 { (completed as f64 / total as f64) * 100.0 } else { 0.0 }
Percentage(completed, total) ==
    IF total > 0
      THEN MulF64(DivF64(FromU64(completed), FromU64(total)), FromU64(100))
      ELSE F64Zero

\* As the match, with the Removed arm carrying the engine's error text.
MapStatusKeepText(status) ==
    CASE status.status = "Waiting"  -> [state |-> "Waiting"]
      [] status.status = "Active"   -> [state |-> "Active"]
      [] status.status = "Paused"   -> [state |-> "Paused"]
      [] status.status = "Complete" -> [state |-> "Complete"]
      [] status.status \in {"Error", "Removed"} ->
            [state |-> "Error",
             message |-> IF status.error_message.some
                           THEN status.error_message.val ELSE ""]

\* match status.status { .. }
MapStatus(status) ==
    CASE status.status = "Waiting"  -> [state |-> "Waiting"]
      [] status.status = "Active"   -> [state |-> "Active"]
      [] status.status = "Paused"   -> [state |-> "Paused"]
      [] status.status = "Complete" -> [state |-> "Complete"]
      [] status.status = "Error"    ->
            [state |-> "Error",
             message |-> IF status.error_message.some
                           THEN status.error_message.val ELSE ""]
      [] status.status = "Removed"  -> [state |-> "Error", message |-> RemovedMsg]

\* DownloadProgress { .. }
Progress(gid, status) ==
    [gid |-> gid,
     completed_length |-> status.completed_length,
     total_length |-> status.total_length,
     download_speed |-> status.download_speed,
     percentage |-> Percentage(status.completed_length, status.total_length),
     status |-> MapStatus(status)]

get_status(gid) ==
    /\ CanBorrowShared
    /\ IF ~client
         THEN ReturnNow("get_status", gid, Err(NotConnectedMsg))
         ELSE SendAndAwait("get_status", gid, Request("tellStatus", gid))
    /\ PerTaskFrame

\* client.tell_status(gid).await? and the translation after it
get_status_resume(gid, reply) ==
    IF reply.kind = "Err" THEN Err(reply.msg) ELSE Ok(Progress(gid, reply.val))

\* ---------------------------------------------------------------------
\* Aria2Manager::pause / resume / cancel
\* ---------------------------------------------------------------------

\* pause that uses the connection without looking whether it is there.
pause_unchecked(gid) ==
    /\ CanBorrowShared
    /\ SendAndAwait("pause", gid, Request("pause", gid))
    /\ PerTaskFrame

pause(gid) ==
    /\ CanBorrowShared
    /\ IF client
         THEN SendAndAwait("pause", gid, Request("pause", gid))
         ELSE ReturnNow("pause", gid, Ok(Unit))
    /\ PerTaskFrame

\* client.pause(gid).await? ; Ok(())
pause_resume(gid, reply) ==
    IF reply.kind = "Err" THEN Err(reply.msg) ELSE Ok(Unit)

resume(gid) ==
    /\ CanBorrowShared
    /\ IF client
         THEN SendAndAwait("resume", gid, Request("unpause", gid))
         ELSE ReturnNow("resume", gid, Ok(Unit))
    /\ PerTaskFrame

\* client.unpause(gid).await? ; Ok(())
resume_resume(gid, reply) ==
    IF reply.kind = "Err" THEN Err(reply.msg) ELSE Ok(Unit)

cancel(gid) ==
    /\ CanBorrowShared
    /\ IF client
         THEN SendAndAwait("cancel", gid, Request("remove", gid))
         ELSE ReturnNow("cancel", gid, Ok(Unit))
    /\ PerTaskFrame

\* `let _ = client.remove(gid).await;`: the engine failure is swallowed.
cancel_resume_swallow(gid, reply) == Ok(Unit)

\* client.remove(gid).await? ; Ok(())
cancel_resume(gid, reply) ==
    IF reply.kind = "Err" THEN Err(reply.msg) ELSE Ok(Unit)

\* ---------------------------------------------------------------------
\* Aria2Manager::get_global_stat
\* ---------------------------------------------------------------------

\* get_global_stat that treats a missing client like add_download does.
get_global_stat_strict ==
    /\ CanBorrowShared
    /\ IF client
         THEN SendAndAwait("get_global_stat", NoGid, Request("getGlobalStat", NoGid))
         ELSE ReturnNow("get_global_stat", NoGid, Err(NotConnectedMsg))
    /\ PerTaskFrame

get_global_stat ==
    /\ CanBorrowShared
    /\ IF client
         THEN SendAndAwait("get_global_stat", NoGid, Request("getGlobalStat", NoGid))
         ELSE ReturnNow("get_global_stat", NoGid, Ok(<<0, 0>>))
    /\ PerTaskFrame

\* client.get_global_stat().await? ; Ok((download_speed, num_active as u64))
get_global_stat_resume(gid, reply) ==
    IF reply.kind = "Err" THEN Err(reply.msg)
    ELSE Ok(<<reply.val.download_speed, reply.val.num_active>>)

\* ---------------------------------------------------------------------
\* The engine answers a suspended per-task call, or its caller abandons it
\* ---------------------------------------------------------------------

\* What the engine may answer to the RPC of each operation.
Replies(op) ==
    {Err(e) : e \in EngineErrs} \cup
    (CASE op = "add_download"    -> {Ok(g) : g \in Gids}
       [] op = "get_status"      -> {Ok(st) : st \in StatusSamples}
       [] op = "get_global_stat" -> {Ok(gs) : gs \in GlobalStatSamples}
       [] OTHER                  -> {Ok(Unit)})

\* The code of the operation after its await.
AfterAwait(op, gid, reply) ==
    CASE op = "add_download"    -> add_download_resume(gid, reply)
      [] op = "get_status"      -> get_status_resume(gid, reply)
      [] op = "pause"           -> pause_resume(gid, reply)
      [] op = "resume"          -> resume_resume(gid, reply)
      [] op = "cancel"          -> cancel_resume(gid, reply)
      [] op = "get_global_stat" -> get_global_stat_resume(gid, reply)

RpcReturn(call, reply) ==
    /\ mgr = "live"
    /\ BagIn(call, inflight)
    /\ inflight' = inflight (-) SetToBag({call})
    /\ ret' = Returned(call.op, call.gid, AfterAwait(call.op, call.gid, reply))
    /\ sent' = NoSent
    /\ recv' = reply
    /\ PerTaskFrame

\* The future of a suspended call is dropped: the call never returns and the
\* request is not retracted from the engine.
CallAbandon(call) ==
    /\ mgr = "live"
    /\ BagIn(call, inflight)
    /\ inflight' = inflight (-) SetToBag({call})
    /\ ret' = NoRet
    /\ sent' = NoSent
    /\ recv' = NoRecv
    /\ PerTaskFrame

\* ---------------------------------------------------------------------
\* Aria2Manager::shutdown and Drop
\* ---------------------------------------------------------------------

KillResults == {"ok", "failed"}

RpcShutdownResults == {"ok", "failed"}

\* `if let Some(process) = self.aria2_process.as_mut()`: kills, keeps the handle.
TakeAndKillKeep(killRes) ==
    IF aria2_process
      THEN /\ kills' = kills + 1
           /\ killLast' = killRes
           /\ UNCHANGED aria2_process
      ELSE UNCHANGED <<aria2_process, kills, killLast>>

\* if let Some(mut process) = self.aria2_process.take() { let _ = process.kill(); }
TakeAndKill(killRes) ==
    IF aria2_process
      THEN /\ aria2_process' = FALSE
           /\ kills' = kills + 1
           /\ killLast' = killRes
      ELSE UNCHANGED <<aria2_process, kills, killLast>>

\* shutdown() that kills the subprocess before the shutdown RPC.
shutdown_kill_first(killRes) ==
    /\ CanBorrowMut
    /\ shutdownsReturned < MaxShutdowns
    /\ IF client
         THEN \* self.client.take(); the shutdown RPC is sent
              /\ client' = FALSE
              /\ rpcShutdowns' = rpcShutdowns + 1
              /\ rpcShutdownLast' = "pending"
              /\ shutdownPc' = "await"
              /\ ret' = NoRet
              /\ TakeAndKill(killRes)
              /\ UNCHANGED shutdownsReturned
         ELSE /\ TakeAndKill(killRes)
              /\ ret' = Returned("shutdown", NoGid, Ok(Unit))
              /\ shutdownsReturned' = shutdownsReturned + 1
              /\ UNCHANGED <<client, rpcShutdowns, rpcShutdownLast, shutdownPc>>
    /\ sent' = NoSent
    /\ recv' = NoRecv
    /\ UNCHANGED <<startVars, mgr, inflight, spawned, launch, connectVars>>

\* shutdown() that uses the client without taking it out of the manager.
shutdown_keep_client(killRes) ==
    /\ CanBorrowMut
    /\ shutdownsReturned < MaxShutdowns
    /\ IF client
         THEN \* self.client.as_ref(); the shutdown RPC is sent
              /\ client' = client
              /\ rpcShutdowns' = rpcShutdowns + 1
              /\ rpcShutdownLast' = "pending"
              /\ shutdownPc' = "await"
              /\ ret' = NoRet
              /\ UNCHANGED <<aria2_process, kills, killLast, shutdownsReturned>>
         ELSE /\ TakeAndKill(killRes)
              /\ ret' = Returned("shutdown", NoGid, Ok(Unit))
              /\ shutdownsReturned' = shutdownsReturned + 1
              /\ UNCHANGED <<client, rpcShutdowns, rpcShutdownLast, shutdownPc>>
    /\ sent' = NoSent
    /\ recv' = NoRecv
    /\ UNCHANGED <<startVars, mgr, inflight, spawned, launch, connectVars>>

\* shutdown() from its call to client.shutdown().await, or to its return
\* when there is no client to shut down.
shutdown(killRes) ==
    /\ CanBorrowMut
    /\ shutdownsReturned < MaxShutdowns
    /\ IF client
         THEN \* self.client.take(); the shutdown RPC is sent
              /\ client' = FALSE
              /\ rpcShutdowns' = rpcShutdowns + 1
              /\ rpcShutdownLast' = "pending"
              /\ shutdownPc' = "await"
              /\ ret' = NoRet
              /\ UNCHANGED <<aria2_process, kills, killLast, shutdownsReturned>>
         ELSE /\ TakeAndKill(killRes)
              /\ ret' = Returned("shutdown", NoGid, Ok(Unit))
              /\ shutdownsReturned' = shutdownsReturned + 1
              /\ UNCHANGED <<client, rpcShutdowns, rpcShutdownLast, shutdownPc>>
    /\ sent' = NoSent
    /\ recv' = NoRecv
    /\ UNCHANGED <<startVars, mgr, inflight, spawned, launch, connectVars>>

\* `client.shutdown().await?;`: a failed shutdown RPC is returned to the caller.
shutdown_resume_propagate(rpcRes, killRes) ==
    /\ mgr = "live"
    /\ shutdownPc = "await"
    /\ rpcShutdownLast' = rpcRes
    /\ IF rpcRes = "failed"
         THEN /\ ret' = Returned("shutdown", NoGid, Err("shutdown rpc failed"))
              /\ UNCHANGED <<aria2_process, kills, killLast>>
         ELSE /\ TakeAndKill(killRes)
              /\ ret' = Returned("shutdown", NoGid, Ok(Unit))
    /\ shutdownPc' = "idle"
    /\ shutdownsReturned' = shutdownsReturned + 1
    /\ sent' = NoSent
    /\ recv' = NoRecv
    /\ UNCHANGED <<startVars, mgr, client, inflight, spawned, launch, connectVars,
                   rpcShutdowns>>

\* let _ = client.shutdown().await; completes with rpcRes, then the kill
\* and Ok(())
shutdown_resume(rpcRes, killRes) ==
    /\ mgr = "live"
    /\ shutdownPc = "await"
    /\ rpcShutdownLast' = rpcRes
    /\ TakeAndKill(killRes)
    /\ shutdownPc' = "idle"
    /\ ret' = Returned("shutdown", NoGid, Ok(Unit))
    /\ shutdownsReturned' = shutdownsReturned + 1
    /\ sent' = NoSent
    /\ recv' = NoRecv
    /\ UNCHANGED <<startVars, mgr, client, inflight, spawned, launch, connectVars,
                   rpcShutdowns>>

\* The future of shutdown() is dropped at client.shutdown().await: the taken
\* client is released, the rest of shutdown() never runs.
shutdown_abandon ==
    /\ mgr = "live"
    /\ shutdownPc = "await"
    /\ rpcShutdownLast' = "abandoned"
    /\ shutdownPc' = "idle"
    /\ ret' = NoRet
    /\ sent' = NoSent
    /\ recv' = NoRecv
    /\ UNCHANGED <<startVars, handleVars, inflight, spawned, launch, connectVars,
                   kills, killLast, rpcShutdowns, shutdownsReturned>>

\* A manager without the Drop impl: the fields are dropped, nothing is killed.
DropNoKill(killRes) ==
    /\ CanBorrowMut
    /\ aria2_process' = FALSE
    /\ client' = FALSE
    /\ mgr' = "dropped"
    /\ ret' = NoRet
    /\ sent' = NoSent
    /\ recv' = NoRecv
    /\ UNCHANGED <<startVars, inflight, shutdownPc, spawned, launch, connectVars,
                   teardownVars>>

\* A drop that also sends the engine-level shutdown RPC.
DropWithRpc(killRes) ==
    /\ CanBorrowMut
    /\ TakeAndKill(killRes)
    /\ client' = FALSE
    /\ rpcShutdowns' = IF client THEN rpcShutdowns + 1 ELSE rpcShutdowns
    /\ rpcShutdownLast' = IF client THEN "abandoned" ELSE rpcShutdownLast
    /\ mgr' = "dropped"
    /\ ret' = NoRet
    /\ sent' = NoSent
    /\ recv' = NoRecv
    /\ UNCHANGED <<startVars, inflight, shutdownPc, spawned, launch, connectVars,
                   shutdownsReturned>>

\* impl Drop for Aria2Manager: drop() runs, then the fields are dropped.
Drop(killRes) ==
    /\ CanBorrowMut
    /\ TakeAndKill(killRes)
    /\ client' = FALSE
    /\ mgr' = "dropped"
    /\ ret' = NoRet
    /\ sent' = NoSent
    /\ recv' = NoRecv
    /\ UNCHANGED <<startVars, inflight, shutdownPc, spawned, launch, connectVars,
                   rpcShutdowns, rpcShutdownLast, shutdownsReturned>>

\* ---------------------------------------------------------------------
\* Specification
\* ---------------------------------------------------------------------

Ops == {"add_download", "get_status", "pause", "resume", "cancel", "get_global_stat"}

Calls == {Call(op, g) : op \in Ops, g \in Gids \cup {NoGid}}

Next ==
    \/ \E exists \in BOOLEAN, spawnRes \in {"ok"} \cup SpawnErrTexts :
          StartLaunch(exists, spawnRes)
    \/ StartSleep
    \/ \E connRes \in {"ok"} \cup ConnErrTexts : StartConnect(connRes)
    \/ \E filename \in {None, Some("file.iso")} :
          add_download("http://x/file", "/tmp", filename)
    \/ \E gid \in Gids : get_status(gid)
    \/ \E gid \in Gids : pause(gid)
    \/ \E gid \in Gids : resume(gid)
    \/ \E gid \in Gids : cancel(gid)
    \/ get_global_stat
    \/ \E call \in Calls : \E reply \in Replies(call.op) : RpcReturn(call, reply)
    \/ \E call \in Calls : CallAbandon(call)
    \/ \E killRes \in KillResults : shutdown(killRes)
    \/ \E rpcRes \in RpcShutdownResults, killRes \in KillResults :
          shutdown_resume(rpcRes, killRes)
    \/ shutdown_abandon
    \/ \E killRes \in KillResults : Drop(killRes)

Spec == Init /\ [][Next]_vars

\* start() when every sleep and every connection attempt returns.
FairSpec ==
    /\ Spec
    /\ WF_vars(\E exists \in BOOLEAN, spawnRes \in {"ok"} \cup SpawnErrTexts :
                  StartLaunch(exists, spawnRes))
    /\ WF_vars(StartSleep)
    /\ WF_vars(\E connRes \in {"ok"} \cup ConnErrTexts : StartConnect(connRes))

\* ---------------------------------------------------------------------
\* The status session: a Started manager that is only asked get_status,
\* with the engine answering any status record
\* ---------------------------------------------------------------------

\* Status records the engine may answer tell_status with.
EngineStatuses ==
    StatusSamples \cup
    [status : TaskStatuses,
     completed_length : {50},
     total_length : {200},
     download_speed : {1024},
     error_message : {None, Some(""), Some("disk full")}] \cup
    [status : {"Active"},
     completed_length : 0..MaxBytes,
     total_length : 0..MaxBytes,
     download_speed : {0, 1024},
     error_message : {None}]

\* The state start() leaves when its first connection attempt succeeds.
StatusInit ==
    /\ startPc = "returned"
    /\ i = 0
    /\ last_error = ""
    /\ startResult = Ok("Aria2Manager")
    /\ mgr = "live"
    /\ client = TRUE
    /\ aria2_process = TRUE
    /\ inflight = EmptyBag
    /\ shutdownPc = "idle"
    /\ ret = NoRet
    /\ sent = NoSent
    /\ recv = NoRecv
    /\ spawned = TRUE
    /\ launch = Launched(TRUE, "ok")
    /\ sleeps = 1
    /\ sleptMs = SleepMs
    /\ attempts = 1
    /\ connFirst = "ok"
    /\ connLast = "ok"
    /\ kills = 0
    /\ killLast = "none"
    /\ rpcShutdowns = 0
    /\ rpcShutdownLast = "none"
    /\ shutdownsReturned = 0

StatusNext ==
    \/ \E gid \in Gids : get_status(gid)
    \/ \E gid \in Gids :
       \E reply \in {Ok(st) : st \in EngineStatuses} \cup {Err(e) : e \in EngineErrs} :
          RpcReturn(Call("get_status", gid), reply)

StatusSpec == StatusInit /\ [][StatusNext]_vars

\* ---------------------------------------------------------------------
\* Properties of start()
\* ---------------------------------------------------------------------

\* start() has run its connect loop to exhaustion: 15 attempts, all failed.
StartExhausted == startPc = "returned" /\ attempts = 15 /\ connLast # "ok"

\* C1: after a successful spawn the connect loop makes at most 15 connection
\* attempts; every attempt, the first included, is immediately preceded by
\* exactly one sleep of 500ms (so k attempts follow k sleeps and 500*k ms);
\* once an attempt has succeeded no further attempt or sleep happens.
C1_ConnectLoop ==
    /\ [](/\ attempts <= 15
          /\ (attempts > 0 \/ sleeps > 0) => spawned
          /\ sleeps = (IF startPc = "connect" THEN attempts + 1 ELSE attempts)
          /\ sleptMs = 500 * sleeps)
    /\ [][/\ attempts' # attempts =>
                /\ attempts' = attempts + 1
                /\ sleeps' = sleeps
                /\ sleeps = attempts + 1
          /\ sleeps' # sleeps =>
                /\ sleeps' = sleeps + 1
                /\ sleeps = attempts
                /\ attempts' = attempts
          /\ connLast = "ok" => (attempts' = attempts /\ sleeps' = sleeps)]_vars

\* The loop ran to its last iteration and that attempt succeeded.
C1_Witness == attempts = 15 /\ sleeps = 15 /\ connLast = "ok" /\ mgr = "live"

\* C2: when all 15 connection attempts fail, start() returns an error and no
\* manager, and the error message is the fixed prefix followed by the text
\* of the 15th failure, not by the text of an earlier (different) failure.
C2_LastErrorSurfaced ==
    StartExhausted =>
        /\ startResult.kind = "Err"
        /\ mgr = "none" /\ ~client /\ ~aria2_process
        /\ startResult.msg = "init aria2 failed: " \o connLast
        /\ connFirst # connLast =>
              startResult.msg # "init aria2 failed: " \o connFirst

\* Exhaustion where the first and the last failure carry different texts.
C2_Witness ==
    /\ StartExhausted
    /\ startResult.kind = "Err"
    /\ connFirst \in ConnErrTexts
    /\ connFirst # connLast

\* C6: when start() has spawned the subprocess and all 15 attempts fail,
\* start() fails, no manager is returned and no kill is ever issued to the
\* spawned subprocess: as long as no manager exists nothing has been killed.
C6_NoRollback ==
    /\ mgr = "none" => (kills = 0 /\ killLast = "none")
    /\ StartExhausted =>
          /\ startResult.kind = "Err"
          /\ mgr = "none" /\ ~client /\ ~aria2_process
          /\ spawned

\* The subprocess was spawned, the 15 attempts failed, nothing was killed.
C6_Witness == StartExhausted /\ spawned /\ kills = 0 /\ startResult.kind = "Err"

\* ---------------------------------------------------------------------
\* Properties of the session
\* ---------------------------------------------------------------------

\* C3: after shutdown() has returned, for any task handle and any further
\* calls, pause, resume and cancel return Ok(()) and add_download and
\* get_status return the not-connected error, and none of them sends an RPC:
\* no request is sent, none is awaited and no answer is received.
C3_AfterShutdown ==
    (mgr = "live" /\ shutdownsReturned >= 1) =>
        /\ sent.method = "none"
        /\ recv.kind = "none"
        /\ BagCardinality(inflight) = 0
        /\ ret.op \in {"pause", "resume", "cancel"} =>
              (ret.res.kind = "Ok" /\ ret.res.val = "()")
        /\ ret.op \in {"add_download", "get_status"} =>
              (ret.res.kind = "Err" /\ ret.res.msg = "aria2 client not connected")

\* get_status was called for a task handle after a shutdown() that returned.
C3_Witness ==
    /\ mgr = "live" /\ shutdownsReturned >= 1
    /\ ret.op = "get_status" /\ ret.gid = "gid2"
    /\ ret.res.kind = "Err"

\* C4: whenever the manager has no connection handle, get_global_stat
\* returns Ok((0, 0)) and sends no RPC.
C4_GlobalStatNoClient ==
    (mgr = "live" /\ ~client) =>
        /\ sent.method # "getGlobalStat"
        /\ \A call \in BagToSet(inflight) : call.op # "get_global_stat"
        /\ ret.op = "get_global_stat" =>
              /\ ret.res.kind = "Ok"
              /\ ret.res.val = <<0, 0>>
              /\ sent.method = "none"
              /\ recv.kind = "none"

\* get_global_stat has returned on a manager without connection handle.
C4_Witness ==
    /\ mgr = "live" /\ ~client
    /\ ret.op = "get_global_stat"
    /\ ret.res.kind = "Ok"

\* C5: for a manager returned by a successful start(), once shutdown() has
\* returned or the manager has been dropped (also after a shutdown() that
\* was abandoned at client.shutdown().await), a kill has been issued to the
\* subprocess that start() spawned and the handle is gone.
C5_KillOnTeardown ==
    (mgr # "none" /\ (shutdownsReturned >= 1 \/ mgr = "dropped")) =>
        /\ spawned
        /\ kills >= 1
        /\ ~aria2_process

\* The manager was dropped after an abandoned shutdown() and no other.
C5_Witness ==
    /\ mgr = "dropped"
    /\ rpcShutdownLast = "abandoned"
    /\ shutdownsReturned = 0
    /\ kills = 1

\* C7: shutdown() never fails the caller: every call returns Ok(()), also
\* when the shutdown RPC or the kill fails; a call made after a completed
\* shutdown() sends no RPC, issues no kill and leaves the manager unchanged.
C7_ShutdownIdempotent ==
    /\ [](ret.op = "shutdown" => (ret.res.kind = "Ok" /\ ret.res.val = "()"))
    /\ [][(shutdownsReturned >= 1 /\ shutdownsReturned' # shutdownsReturned) =>
             /\ UNCHANGED <<mgr, client, aria2_process, inflight, shutdownPc>>
             /\ UNCHANGED <<kills, killLast, rpcShutdowns, rpcShutdownLast>>
             /\ sent'.method = "none"
             /\ ret'.op = "shutdown" /\ ret'.res.kind = "Ok"]_vars

\* A second shutdown() has returned after one whose RPC and kill both failed.
C7_Witness ==
    /\ shutdownsReturned = 2
    /\ ret.op = "shutdown" /\ ret.res.kind = "Ok"
    /\ rpcShutdownLast = "failed" /\ killLast = "failed"
    /\ kills = 1 /\ rpcShutdowns = 1

\* C8 as stated: after every completed operation of a live manager the
\* connection handle is present iff the subprocess handle is.
C8_AsStated ==
    (mgr = "live" /\ ret.op # "none") => (client <=> aria2_process)

\* C8, amended: after every completed operation the two handles are both
\* present or both absent, except after a shutdown() abandoned at its
\* engine-shutdown suspension point, which leaves the connection handle
\* absent and the subprocess handle present until shutdown() returns or the
\* manager is dropped; both are present from a successful start() until
\* shutdown() is called, both are absent after shutdown() has returned, and
\* no per-task operation changes either handle.
C8_HandlesPaired ==
    /\ [](/\ client => aria2_process
          /\ (mgr = "live" /\ shutdownPc = "idle") =>
                \/ client <=> aria2_process
                \/ rpcShutdownLast = "abandoned" /\ shutdownsReturned = 0
          /\ (mgr = "live" /\ rpcShutdowns = 0 /\ shutdownsReturned = 0) =>
                (client /\ aria2_process)
          /\ shutdownsReturned >= 1 => (~client /\ ~aria2_process))
    /\ [][(ret'.op \in Ops \/ sent'.method # "none") =>
             UNCHANGED <<client, aria2_process>>]_vars

\* A per-task operation completed after an abandoned and then a completed
\* shutdown(): both handles are absent.
C8_Witness ==
    /\ mgr = "live"
    /\ rpcShutdownLast = "abandoned" /\ shutdownsReturned >= 1
    /\ ret.op = "cancel"
    /\ ~client /\ ~aria2_process

\* Uninitialized: no manager value yet; Started: both handles present;
\* ShutDown: a handle has been cleared or the manager is gone.
Lifecycle ==
    IF mgr = "none" THEN "Uninitialized"
    ELSE IF mgr = "live" /\ client /\ aria2_process THEN "Started"
    ELSE "ShutDown"

LifecycleRank ==
    CASE Lifecycle = "Uninitialized" -> 0
      [] Lifecycle = "Started"       -> 1
      [] Lifecycle = "ShutDown"      -> 2

\* C9: the lifecycle only moves Uninitialized -> Started -> ShutDown: a handle
\* becomes present only in the step in which start() returns the manager
\* (both at once), and once a handle of a manager is absent no operation on
\* that manager makes it present again.
C9_Lifecycle ==
    [][/\ ((client' /\ ~client) \/ (aria2_process' /\ ~aria2_process)) =>
             /\ mgr = "none" /\ mgr' = "live"
             /\ startPc = "connect" /\ startPc' = "returned"
             /\ client' /\ aria2_process'
       /\ LifecycleRank' >= LifecycleRank
       /\ LifecycleRank' <= LifecycleRank + 1
       /\ mgr # "none" => mgr' # "none"
       /\ mgr = "dropped" => mgr' = "dropped"]_vars

\* add_download has been called on a manager that was shut down.
C9_Witness ==
    /\ Lifecycle = "ShutDown" /\ mgr = "live"
    /\ shutdownsReturned >= 1
    /\ ret.op = "add_download"

\* C10: when the engine answers the RPC of a per-task operation on a Started
\* manager with a failure, that failure is what the operation returns, the
\* step changes neither handle, issues no kill and no engine shutdown, and
\* the manager keeps forwarding: the next call that returns has been answered
\* by the engine.
C10_EngineFailureLocal ==
    /\ [](recv.kind = "Err" =>
             /\ ret.op \in Ops
             /\ ret.res.kind = "Err" /\ ret.res.msg = recv.msg
             /\ Lifecycle = "Started")
    /\ [][recv'.kind = "Err" =>
             /\ UNCHANGED <<mgr, client, aria2_process>>
             /\ UNCHANGED <<kills, killLast, rpcShutdowns, rpcShutdownLast>>]_vars
    /\ [][(recv.kind = "Err" /\ ret'.op \in Ops) => recv'.kind # "none"]_vars

\* cancel of an unknown handle came back with the engine's failure while
\* another call is still awaited.
C10_Witness ==
    /\ recv.kind = "Err" /\ recv.msg = "gid not found"
    /\ ret.op = "cancel" /\ ret.res.kind = "Err"
    /\ BagCardinality(inflight) >= 1
    /\ client /\ aria2_process

\* C11: start() fails fast on launch errors, without retry: when aria2c.exe
\* does not exist it returns the not-found error without spawning, sleeping
\* or connecting; when spawn() fails it returns that error without sleeping
\* or connecting.
C11_FailFast ==
    /\ launch.exists = "no" =>
          /\ startPc = "returned" /\ mgr = "none"
          /\ startResult.kind = "Err"
          /\ startResult.msg = "aria2c.exe not found at <bin_dir>/aria2c.exe"
          /\ ~spawned /\ sleeps = 0 /\ attempts = 0
    /\ (launch.exists = "yes" /\ launch.spawn # "ok") =>
          /\ startPc = "returned" /\ mgr = "none"
          /\ startResult.kind = "Err"
          /\ startResult.msg = launch.spawn
          /\ ~spawned /\ sleeps = 0 /\ attempts = 0

\* start() has returned because the executable is missing.
C11_Witness ==
    /\ launch.exists = "no"
    /\ startPc = "returned" /\ startResult.kind = "Err"

\* C12: when the k-th connection attempt (1 <= k <= 15) is the first to
\* succeed, start() returns a Started manager (both handles present) after
\* exactly k attempts: the k-1 attempts before it failed and none follows.
\* An add_download on the Started manager is forwarded to the engine, and
\* when the engine answers with a task handle, that handle is returned.
C12_StartedAfterK ==
    /\ [](/\ (mgr = "none" /\ startPc # "returned") =>
                (attempts = i /\ connLast # "ok")
          /\ mgr # "none" =>
                /\ startResult.kind = "Ok"
                /\ connLast = "ok"
                /\ attempts \in 1..15 /\ sleeps = attempts
                /\ attempts > 1 => connFirst \in ConnErrTexts)
    /\ [][(mgr = "none" /\ mgr' = "live") =>
             /\ attempts' = i + 1
             /\ connLast' = "ok"
             /\ client' /\ aria2_process']_vars
    /\ [][(Lifecycle = "Started" /\ ret'.op = "add_download") =>
             /\ recv'.kind # "none"
             /\ recv'.kind = "Ok" =>
                   (ret'.res.kind = "Ok" /\ ret'.res.val = recv'.val)]_vars

\* start() succeeded on the 3rd attempt and a later add_download returned
\* the handle the engine answered with.
C12_Witness ==
    /\ attempts = 3 /\ connFirst \in ConnErrTexts /\ connLast = "ok"
    /\ ret.op = "add_download"
    /\ recv.kind = "Ok"
    /\ ret.res.kind = "Ok" /\ ret.res.val = "gid1"

\* ---------------------------------------------------------------------
\* Properties of the translation in get_status
\* ---------------------------------------------------------------------

\* C13: get_status maps every engine state to one domain state: Waiting,
\* Active, Paused and Complete to themselves, Error to Error with the
\* engine's error message or the empty string, and Removed to Error with the
\* fixed message, whatever error text the engine record carries.
C13_StatusMapping ==
    (ret.op = "get_status" /\ recv.kind = "Ok") =>
        /\ ret.res.kind = "Ok"
        /\ ret.res.val.status.state \in
              {"Waiting", "Active", "Paused", "Complete", "Error"}
        /\ recv.val.status \in {"Waiting", "Active", "Paused", "Complete"} =>
              ret.res.val.status = [state |-> recv.val.status]
        /\ recv.val.status = "Error" =>
              /\ ret.res.val.status.state = "Error"
              /\ ret.res.val.status.message =
                    (IF recv.val.error_message.some
                       THEN recv.val.error_message.val ELSE "")
        /\ recv.val.status = "Removed" =>
              /\ ret.res.val.status.state = "Error"
              /\ ret.res.val.status.message = RemovedMsg

\* get_status translated a Removed record that carries an error text.
C13_Witness ==
    /\ ret.op = "get_status" /\ recv.kind = "Ok"
    /\ recv.val.status = "Removed"
    /\ recv.val.error_message = Some("disk full")
    /\ ret.res.kind = "Ok"
    /\ ret.res.val.status.state = "Error"
    /\ ret.res.val.status.message = RemovedMsg

\* C14 as stated: for every total > 0 the percentage equals
\* 100 * completed / total exactly.
C14_AsStated ==
    (ret.op = "get_status" /\ recv.kind = "Ok" /\ recv.val.total_length > 0) =>
        F64EqRatio(ret.res.val.percentage,
                   100 * recv.val.completed_length, recv.val.total_length)

\* C14: the progress returned by get_status carries the queried handle and
\* the engine's completed, total and speed counters; for total > 0 its
\* percentage is the f64 value of (completed / total) * 100.0, which is
\* within a relative error of 2^-50 of 100 * completed / total (25.0 for 50
\* of 200); for total = 0 it is 0.0 whatever the completed count is.
C14_Percentage ==
    (ret.op = "get_status" /\ recv.kind = "Ok") =>
        /\ ret.res.kind = "Ok"
        /\ ret.res.val.gid = ret.gid
        /\ ret.res.val.completed_length = recv.val.completed_length
        /\ ret.res.val.total_length = recv.val.total_length
        /\ ret.res.val.download_speed = recv.val.download_speed
        /\ recv.val.total_length > 0 =>
              F64NearRatio(ret.res.val.percentage,
                           100 * recv.val.completed_length, recv.val.total_length)
        /\ (recv.val.completed_length = 50 /\ recv.val.total_length = 200) =>
              ret.res.val.percentage = FromU64(25)
        /\ recv.val.total_length = 0 => ret.res.val.percentage = F64Zero

\* get_status returned the progress of 1 byte of 3: a percentage that is not
\* 100/3.
C14_Witness ==
    /\ ret.op = "get_status" /\ recv.kind = "Ok"
    /\ recv.val.completed_length = 1 /\ recv.val.total_length = 3
    /\ ret.res.kind = "Ok"
    /\ ret.res.val.percentage # F64Zero
    /\ ~F64EqRatio(ret.res.val.percentage, 100, 3)

\* ---------------------------------------------------------------------
\* Properties of drop, of the start() loop and of shutdown()
\* ---------------------------------------------------------------------

\* C15: the drop of a manager kills the subprocess exactly when the
\* subprocess handle is still present and never sends the engine-level
\* shutdown RPC (nor any other RPC); after a shutdown() that returned, the
\* handle is absent, so the drop issues neither a kill nor an RPC.
C15_DropKills ==
    [][(mgr = "live" /\ mgr' = "dropped") =>
          /\ kills' = (IF aria2_process THEN kills + 1 ELSE kills)
          /\ rpcShutdowns' = rpcShutdowns
          /\ rpcShutdownLast' = rpcShutdownLast
          /\ sent' = NoSent
          /\ shutdownsReturned >= 1 => (~aria2_process /\ kills' = kills)]_vars

\* A Started manager was dropped without shutdown(): one kill, no RPC.
C15_Witness ==
    /\ mgr = "dropped"
    /\ kills = 1 /\ killLast \in KillResults
    /\ rpcShutdowns = 0 /\ shutdownsReturned = 0

\* C16 as stated: nothing prevents add_download while start() is inside its
\* connect-retry loop.
C16_AsStated ==
    startPc \in {"sleep", "connect"} =>
        ENABLED (\E filename \in {None, Some("file.iso")} :
                    add_download("http://x/file", "/tmp", filename))

\* C16: while start() is inside its connect-retry loop there is no manager
\* value: add_download cannot be invoked, no per-task call is in flight or
\* returns, and nothing is sent on a connection; an addUri request is only
\* sent after start() has returned Ok.
C16_NoManagerMidStart ==
    /\ [](startPc \in {"sleep", "connect"} =>
             /\ mgr = "none"
             /\ inflight = EmptyBag
             /\ ret = NoRet /\ sent = NoSent /\ recv = NoRecv
             /\ ~ENABLED (\E filename \in {None, Some("file.iso")} :
                             add_download("http://x/file", "/tmp", filename)))
    /\ [][sent'.method = "addUri" =>
             (startPc = "returned" /\ startResult.kind = "Ok")]_vars

\* start() is about to make its 3rd connection attempt.
C16_Witness ==
    startPc = "connect" /\ attempts = 2 /\ i = 2 /\ mgr = "none"

\* C17: when every sleep and every connection attempt returns, start()
\* returns, with a manager or with an error, after at most 15 attempts and
\* 15 sleeps.  No other wait of the manager is bounded by it: a suspended
\* per-task call ends only with the engine's answer or when its caller
\* abandons it, and a suspended shutdown() only with the result of its RPC
\* or when abandoned.
C17_StartTerminates ==
    /\ [](attempts <= 15 /\ sleeps <= 15)
    /\ <>(startPc = "returned" /\ startResult.kind \in {"Ok", "Err"})
    /\ [][(BagCardinality(inflight') < BagCardinality(inflight)) =>
             (ret' = NoRet \/ recv'.kind \in {"Ok", "Err"})]_vars
    /\ [][(shutdownPc = "await" /\ shutdownPc' = "idle") =>
             rpcShutdownLast' \in {"ok", "failed", "abandoned"}]_vars

\* start() returned its error after 15 failed attempts.
C17_Witness ==
    /\ startPc = "returned" /\ startResult.kind = "Err"
    /\ attempts = 15 /\ sleeps = 15

\* C18: shutdown() on a Started manager sends the engine-level shutdown RPC
\* and waits for it without having killed the subprocess; when the RPC has
\* succeeded or failed, shutdown() kills the subprocess and returns Ok(()).
C18_RpcBeforeKill ==
    /\ [](shutdownPc = "await" =>
             (rpcShutdownLast = "pending" /\ aria2_process /\ kills = 0))
    /\ [][(Lifecycle = "Started" /\ shutdownPc' = "await") =>
             (rpcShutdowns' = rpcShutdowns + 1 /\ kills' = kills)]_vars
    /\ [][(shutdownPc = "await" /\ ret'.op = "shutdown") =>
             /\ rpcShutdownLast' \in {"ok", "failed"}
             /\ kills' = kills + 1
             /\ ~aria2_process'
             /\ ret'.res = Ok(Unit)]_vars

\* shutdown() returned after a failed shutdown RPC, the kill issued.
C18_Witness ==
    /\ ret.op = "shutdown" /\ ret.res = Ok(Unit)
    /\ rpcShutdownLast = "failed"
    /\ kills = 1 /\ ~aria2_process

\* C19: over the shutdown() calls and the drop of a manager, the subprocess
\* is killed at most once and the shutdown RPC is sent at most once: the
\* step that kills takes the subprocess handle out of the manager and the
\* step that sends the RPC takes the connection handle out.
C19_AtMostOnce ==
    /\ [](kills <= 1 /\ rpcShutdowns <= 1)
    /\ [][kills' # kills =>
             (aria2_process /\ ~aria2_process' /\ kills' = kills + 1)]_vars
    /\ [][rpcShutdowns' # rpcShutdowns =>
             (client /\ ~client' /\ rpcShutdowns' = rpcShutdowns + 1)]_vars

\* Two shutdown() calls returned and the manager was dropped.
C19_Witness ==
    /\ mgr = "dropped" /\ shutdownsReturned = 2
    /\ kills = 1 /\ rpcShutdowns = 1

\* C20: several per-task calls may be suspended at once and are answered in
\* any order; shutdown() runs only when none is in flight and none starts
\* while it is suspended; once the shutdown RPC has been sent, no per-task
\* request is sent and no per-task call is in flight.
C20_SharedVsExclusive ==
    /\ [](shutdownPc = "await" => inflight = EmptyBag)
    /\ [](rpcShutdowns >= 1 => (sent = NoSent /\ inflight = EmptyBag))
    /\ [][sent' # NoSent =>
             (shutdownPc = "idle" /\ rpcShutdowns = 0 /\ rpcShutdowns' = 0)]_vars
    /\ [][(shutdownPc' = "await" /\ shutdownPc = "idle") =>
             inflight = EmptyBag]_vars

\* get_status was sent after pause and answered before it.
C20_Witness ==
    /\ inflight = SetToBag({Call("pause", "gid1")})
    /\ ret.op = "get_status" /\ ret.gid = "gid2"
    /\ recv.kind = "Ok"

====
